---- MODULE Spec2Model ----
(***************************************************************************)
(* UnityShop verification scripts as one state machine.                    *)
(*                                                                         *)
(* A run is one execution of one of the three verification scripts         *)
(*   "smoke"    scripts/smoke_test.py     (functions called from main())   *)
(*   "vall"     scripts/verify-all.py     (module body, top to bottom)     *)
(*   "vcluster" scripts/verify-cluster.py (module body, top to bottom)     *)
(* The wrapped command-line tools are the environment: every command the   *)
(* script runs answers with a result drawn from a small set (exit status,  *)
(* text on stdout, text on stderr, or an exception in the caller).  Text   *)
(* is a set of tokens and the Python substring test `p in text` is the     *)
(* operator In.                                                            *)
(***************************************************************************)
EXTENDS Integers, Sequences, FiniteSets, TLC

\* ------------------------------------------------------------------
\* Bounds
\* ------------------------------------------------------------------
\* longest pod list the orchestrator CLI answers with
MaxPods == 2

\* ------------------------------------------------------------------
\* Program constants
\* ------------------------------------------------------------------
\* for _ in range(30): run("curl -s http://localhost:30080/healthz ...")
LoadRequests == 30
GATEWAY_PORT == 30090
API_PORT == 30030

Scripts == {"smoke", "vall", "vcluster"}

\* ------------------------------------------------------------------
\* Text of command output
\* ------------------------------------------------------------------
\* pairs <<p, t>> where p is a proper substring of the token t
SubstrPairs ==
    { <<"No resources", "No resources found">>,
      <<"ok", "status:ok">> }

\* Python `p in text`
In(p, text) == \E t \in text : p = t \/ <<p, t>> \in SubstrPairs

\* Python str.lower() on the tokens the scripts lower-case
LowerTok(t) ==
    CASE t = "OK" -> "ok"
      [] t = "<HTML" -> "<html"
      [] OTHER -> t

Lower(text) == { LowerTok(t) : t \in text }

\* ------------------------------------------------------------------
\* Results of external commands
\* ------------------------------------------------------------------
\* what one external command answers: exit status, stdout, stderr, the
\* pod list it printed, and whether decoding its output raised in the
\* caller (an exception other than CalledProcessError)
Res(rc, out, err) ==
    [rc |-> rc, out |-> out, err |-> err, items |-> <<>>, exc |-> FALSE]

\* a command whose output is not inspected beyond its exit status
CmdResults == { Res(0, {"text"}, {}), Res(1, {}, {"error"}) }

\* kubectl get ns <NAMESPACE>: present, or absent with the NotFound
\* message on either stream and either exit status
NsResults ==
    { Res(0, {"Active"}, {}) }
    \cup { Res(rc, {"NotFound"}, {}) : rc \in {0, 1} }
    \cup { Res(rc, {}, {"NotFound"}) : rc \in {0, 1} }

NsAbsent(r) == In("NotFound", r.out \cup r.err)

\* pod status column paired with the pod phase of the JSON listing
PodKinds ==
    { <<"Running", "Running">>,
      <<"CrashLoopBackOff", "Running">>,
      <<"ImagePullBackOff", "Pending">>,
      <<"Error", "Failed">>,
      <<"Evicted", "Failed">>,
      <<"Pending", "Pending">>,
      <<"Terminating", "Running">> }

PodNames == << "pod1", "pod2", "pod3", "pod4" >>

Pod(i, k) == [name |-> PodNames[i], status |-> k[1], phase |-> k[2]]

RECURSIVE PodLists(_)
PodLists(n) ==
    IF n = 0 THEN { <<>> }
    ELSE LET shorter == PodLists(n - 1)
         IN  shorter \cup
             { Append(l, Pod(n, k)) : l \in { s \in shorter : Len(s) = n - 1 },
                                      k \in PodKinds }

\* kubectl get pods -n <NAMESPACE>: a non-empty list on stdout, or no pods
\* with the "No resources found" message on either stream and either
\* exit status
PodsResults ==
    { [Res(0, {"NAME"}, {}) EXCEPT !.items = l] :
          l \in PodLists(MaxPods) \ { <<>> } }
    \cup { Res(rc, {"No resources found"}, {}) : rc \in {0, 1} }
    \cup { Res(rc, {}, {"No resources found"}) : rc \in {0, 1} }

\* kubectl get pods -n <NAMESPACE> -o json: the items array, empty or not
PodsJsonResults ==
    { [Res(0, {"items"}, {}) EXCEPT !.items = l] : l \in PodLists(MaxPods) }
    \cup { Res(1, {}, {"error"}) }

\* the namespace has no pods: the CLI said so, or the JSON array is empty
PodsAbsent(r) ==
    /\ r.items = <<>>
    /\ In("No resources found", r.out \cup r.err) \/ In("items", r.out)

bad_states ==
    {"CrashLoopBackOff", "ImagePullBackOff", "Error", "Evicted", "Pending",
     "Terminating"}

\* names of the pods of a result that are in a known-bad state
BadPods(r) ==
    { r.items[i].name : i \in { j \in 1..Len(r.items) :
                                  r.items[j].status \in bad_states } }

\* ------------------------------------------------------------------
\* State
\* ------------------------------------------------------------------
VARIABLES
    script,     \* which script this run executes
    pc,         \* the statement the script is at
    log,        \* checks executed so far, in order, with what they printed
    live,       \* forwarding processes launched and not terminated
    terms,      \* terminate() calls per forwarding process
    exitCode,   \* {} while running, {c} once the process ended with c
    banner,     \* the final success banner was printed
    httpLog,    \* HTTP requests sent: port and whether a forward held it
    loadCount,  \* iterations done of the load loop of verify-all.py
    failed,     \* verify-cluster.py: failed
    args,       \* what the run was started with: platform, directories, flags
    current,    \* root locators: the candidate directory
    root        \* root locators: {} or {the directory taken as project root}

vars ==
    << script, pc, log, live, terms, exitCode, banner, httpLog, loadCount,
       failed, args, current, root >>

\* the variables no verification script touches
locatorVars == << args, current, root >>

Forwards == {"api_pf", "web_pf", "prom_pf", "alert_pf", "graf_pf", "ui_pf"}

\* local port of each port-forward command
Port(f) ==
    CASE f = "api_pf" -> 30080
      [] f = "web_pf" -> 31080
      [] f = "prom_pf" -> 9090
      [] f = "alert_pf" -> 9093
      [] f = "graf_pf" -> 3000
      [] f = "ui_pf" -> 31080

Entry(c, v, d, r) == [check |-> c, verdict |-> v, detail |-> d, res |-> r]

\* first statement of each script
FirstPc(s) ==
    CASE s = "smoke" -> "sm_k8s"
      [] s = "vall" -> "va_env1"
      [] s = "vcluster" -> "vc_ns"

\* Popen(cmd, shell=True) starts /bin/sh -c cmd: the shell either replaces
\* itself by the command (shell_execs) or stays its parent, and
\* terminate() signals the shell only
Platforms == { [shell_execs |-> b] : b \in BOOLEAN }

Init ==
    /\ script \in Scripts
    /\ pc = FirstPc(script)
    /\ log = <<>>
    /\ live = {}
    /\ terms = [f \in Forwards |-> 0]
    /\ exitCode = {}
    /\ banner = FALSE
    /\ httpLog = {}
    /\ loadCount = 0
    /\ failed = FALSE
    /\ args \in Platforms
    /\ current = <<>>
    /\ root = {}

\* ------------------------------------------------------------------
\* Ways a statement ends
\* ------------------------------------------------------------------
\* the check printed its verdict and the script goes on to `next`
Goto(c, v, d, r, next) ==
    /\ log' = Append(log, Entry(c, v, d, r))
    /\ pc' = next
    /\ UNCHANGED exitCode

\* the check printed its verdict and called sys.exit(1)
Exit1(c, v, d, r) ==
    /\ log' = Append(log, Entry(c, v, d, r))
    /\ pc' = "exited"
    /\ exitCode' = {1}

\* an exception nobody catches: traceback, interpreter exit status 1
Abort(c, r) ==
    /\ log' = Append(log, Entry(c, "ERROR", {}, r))
    /\ pc' = "aborted"
    /\ exitCode' = {1}

\* an HTTP request to a local port
Request(port) ==
    httpLog' = httpLog \cup
        { [port |-> port, forwarded |-> \E f \in live : Port(f) = port] }

\* ==================================================================
\* scripts/smoke_test.py
\* ==================================================================
UUID_KEY == "unityexpress/watermark"

\* run(cmd): the stripped stdout, or sys.exit(1) on a non-zero status
smoke_run(r) ==
    IF r.rc # 0 THEN [exit |-> TRUE, out |-> {}]
    ELSE [exit |-> FALSE, out |-> r.out]

\* check_k8s_connection() in a main() that goes straight to the pod check
check_k8s_connection_no_namespace ==
    /\ script = "smoke" /\ pc = "sm_k8s"
    /\ \E r \in CmdResults :
          IF smoke_run(r).exit
          THEN Exit1("reachability", "FAIL", {}, r)
          ELSE Goto("reachability", "PASS", {}, r, "sm_pods")
    /\ UNCHANGED << script, live, terms, banner, httpLog, loadCount, failed >>

\* check_k8s_connection()
check_k8s_connection ==
    /\ script = "smoke" /\ pc = "sm_k8s"
    /\ \E r \in CmdResults :
          IF smoke_run(r).exit
          THEN Exit1("reachability", "FAIL", {}, r)
          ELSE Goto("reachability", "PASS", {}, r, "sm_ns")
    /\ UNCHANGED << script, live, terms, banner, httpLog, loadCount, failed >>

\* check_namespace()
check_namespace ==
    /\ script = "smoke" /\ pc = "sm_ns"
    /\ \E r \in NsResults :
          IF smoke_run(r).exit
          THEN Exit1("namespace", "FAIL", {}, r)
          ELSE Goto("namespace", "PASS", {}, r, "sm_pods")
    /\ UNCHANGED << script, live, terms, banner, httpLog, loadCount, failed >>

\* index of the first pod whose phase is not Running, 0 when there is none
RECURSIVE FirstNotRunning(_, _)
FirstNotRunning(items, i) ==
    IF i > Len(items) THEN 0
    ELSE IF items[i].phase # "Running" THEN i
    ELSE FirstNotRunning(items, i + 1)

\* check_pods_running()
check_pods_running ==
    /\ script = "smoke" /\ pc = "sm_pods"
    /\ \E r \in PodsJsonResults :
          IF smoke_run(r).exit
          THEN Exit1("pods", "FAIL", {}, r)
          ELSE LET i == FirstNotRunning(r.items, 1)
               IN  IF i # 0
                   THEN Exit1("pods", "FAIL", {r.items[i].name}, r)
                   ELSE Goto("pods", "PASS", {}, r, "sm_watermark")
    /\ UNCHANGED << script, live, terms, banner, httpLog, loadCount, failed >>

\* kubectl get pods -o json as check_uuid_watermark() reads it: some pod
\* carries the annotation, or none does
WatermarkResults ==
    { Res(0, {"items", UUID_KEY}, {}), Res(0, {"items"}, {}),
      Res(1, {}, {"error"}) }

\* check_uuid_watermark() that exits when no watermark is found
check_uuid_watermark_fatal ==
    /\ script = "smoke" /\ pc = "sm_watermark"
    /\ \E r \in WatermarkResults :
          IF smoke_run(r).exit
          THEN Exit1("watermark", "FAIL", {}, r)
          ELSE IF In(UUID_KEY, smoke_run(r).out)
               THEN Goto("watermark", "PASS", {}, r, "sm_svc1")
               ELSE Exit1("watermark", "WARN", {}, r)
    /\ UNCHANGED << script, live, terms, banner, httpLog, loadCount, failed >>

\* check_uuid_watermark()
check_uuid_watermark ==
    /\ script = "smoke" /\ pc = "sm_watermark"
    /\ \E r \in WatermarkResults :
          IF smoke_run(r).exit
          THEN Exit1("watermark", "FAIL", {}, r)
          ELSE IF In(UUID_KEY, smoke_run(r).out)
               THEN Goto("watermark", "PASS", {}, r, "sm_svc1")
               ELSE Goto("watermark", "WARN", {}, r, "sm_svc1")
    /\ UNCHANGED << script, live, terms, banner, httpLog, loadCount, failed >>

\* the four check_service(name) calls of main(), in order
ServicePcs == << "sm_svc1", "sm_svc2", "sm_svc3", "sm_svc4" >>

ServiceNames ==
    << "svc:unityexpress-gateway", "svc:unityexpress-api",
       "svc:unityexpress-kafka", "svc:unityexpress-mongo" >>

\* check_service(name)
check_service ==
    /\ script = "smoke"
    /\ \E i \in 1..Len(ServicePcs) :
          /\ pc = ServicePcs[i]
          /\ \E r \in CmdResults :
                IF smoke_run(r).exit
                THEN Exit1(ServiceNames[i], "FAIL", {}, r)
                ELSE Goto(ServiceNames[i], "PASS", {}, r,
                          IF i < Len(ServicePcs) THEN ServicePcs[i + 1]
                          ELSE "sm_gateway")
    /\ UNCHANGED << script, live, terms, banner, httpLog, loadCount, failed >>

\* requests.get(url, timeout=3): a response with some status code (rc 0),
\* or an exception of the HTTP client (rc 1)
HttpResults == { Res(0, {"200"}, {}), Res(0, {"500"}, {}), Res(1, {}, {"refused"}) }

\* check_http(url, label): True for any response, False when the request
\* raised
check_http(r) == r.rc = 0

\* check_gateway()
check_gateway ==
    /\ script = "smoke" /\ pc = "sm_gateway"
    /\ \E r \in HttpResults :
          Goto("probe:gateway", IF check_http(r) THEN "PASS" ELSE "FAIL", {},
               r, "sm_api")
    /\ Request(GATEWAY_PORT)
    /\ UNCHANGED << script, live, terms, banner, loadCount, failed >>

\* check_api() in a main() that does not call check_kafka()
check_api_skips_kafka ==
    /\ script = "smoke" /\ pc = "sm_api"
    /\ \E r \in HttpResults :
          Goto("probe:api", IF check_http(r) THEN "PASS" ELSE "FAIL", {}, r,
               "sm_mongo")
    /\ Request(API_PORT)
    /\ UNCHANGED << script, live, terms, banner, loadCount, failed >>

\* check_api()
check_api ==
    /\ script = "smoke" /\ pc = "sm_api"
    /\ \E r \in HttpResults :
          Goto("probe:api", IF check_http(r) THEN "PASS" ELSE "FAIL", {}, r,
               "sm_kafka")
    /\ Request(API_PORT)
    /\ UNCHANGED << script, live, terms, banner, loadCount, failed >>

\* kubectl exec ... && echo OK || echo FAIL
ExecResults == { Res(0, {"OK"}, {}), Res(0, {"FAIL"}, {}), Res(1, {}, {"error"}) }

\* check_kafka()
check_kafka ==
    /\ script = "smoke" /\ pc = "sm_kafka"
    /\ \E r \in ExecResults :
          IF smoke_run(r).exit
          THEN Exit1("kafka", "FAIL", {}, r)
          ELSE IF In("OK", smoke_run(r).out)
               THEN Goto("kafka", "PASS", {}, r, "sm_mongo")
               ELSE Exit1("kafka", "FAIL", {}, r)
    /\ UNCHANGED << script, live, terms, banner, httpLog, loadCount, failed >>

\* check_mongo()
check_mongo ==
    /\ script = "smoke" /\ pc = "sm_mongo"
    /\ \E r \in ExecResults :
          IF smoke_run(r).exit
          THEN Exit1("mongo", "FAIL", {}, r)
          ELSE IF In("OK", smoke_run(r).out)
               THEN Goto("mongo", "PASS", {}, r, "sm_keda")
               ELSE Exit1("mongo", "FAIL", {}, r)
    /\ UNCHANGED << script, live, terms, banner, httpLog, loadCount, failed >>

\* kubectl get pods -n keda --no-headers: operator pods listed, none
\* (message on stderr, status 0), or the command failed
KedaPodsResults ==
    { Res(0, {"keda-operator"}, {}), Res(0, {}, {"No resources found"}),
      Res(1, {}, {"error"}) }

\* kubectl get scaledobject ...: objects listed, none, or the resource
\* type is unknown to the server
ScaledObjectResults ==
    { Res(0, {"scaledobject"}, {}), Res(0, {}, {"No resources found"}),
      Res(1, {}, {"error"}) }

\* cmd || true: the shell reports success whatever cmd did
OrTrue(r) == [r EXCEPT !.rc = 0]

\* check_keda(), first command: the operator pods
check_keda ==
    /\ script = "smoke" /\ pc = "sm_keda"
    /\ \E r \in KedaPodsResults :
          IF smoke_run(r).exit
          THEN Exit1("autoscaling:keda", "FAIL", {}, r)
          ELSE Goto("autoscaling:keda", "PASS", {}, r, "sm_scaledobject")
    /\ UNCHANGED << script, live, terms, banner, httpLog, loadCount, failed >>

\* check_keda(), second command: the ScaledObject
check_keda_scaledobject ==
    /\ script = "smoke" /\ pc = "sm_scaledobject"
    /\ \E r \in ScaledObjectResults :
          IF smoke_run(OrTrue(r)).exit
          THEN Exit1("autoscaling:scaledobject", "FAIL", {}, r)
          ELSE IF smoke_run(OrTrue(r)).out # {}
               THEN Goto("autoscaling:scaledobject", "PASS", {}, r, "sm_end")
               ELSE Goto("autoscaling:scaledobject", "NOTE", {}, r, "sm_end")
    /\ UNCHANGED << script, live, terms, banner, httpLog, loadCount, failed >>

\* main(): the banner after the last check, then the interpreter ends
smoke_main_end ==
    /\ script = "smoke" /\ pc = "sm_end"
    /\ banner' = TRUE
    /\ pc' = "done"
    /\ exitCode' = {0}
    /\ UNCHANGED << script, log, live, terms, httpLog, loadCount, failed >>

SmokeNext ==
    \/ check_k8s_connection
    \/ check_namespace
    \/ check_pods_running
    \/ check_uuid_watermark
    \/ check_service
    \/ check_gateway
    \/ check_api
    \/ check_kafka
    \/ check_mongo
    \/ check_keda
    \/ check_keda_scaledobject
    \/ smoke_main_end

\* ==================================================================
\* scripts/verify-all.py
\* ==================================================================
\* run(cmd): stdout, or "" when the command failed or anything was raised
vall_run(r) ==
    IF r.rc # 0 \/ r.exc THEN [out |-> {}, items |-> <<>>]
    ELSE [out |-> r.out, items |-> r.items]

\* env_checks: label and the text expected in the output
env_checks ==
    << [label |-> "reachability:Minikube", expect |-> "Running"],
       [label |-> "reachability:kubectl", expect |-> "Client"],
       [label |-> "reachability:Kubernetes API", expect |-> "Ready"],
       [label |-> "reachability:Docker", expect |-> "Server"],
       [label |-> "reachability:Helm", expect |-> "version"] >>

EnvPcs == << "va_env1", "va_env2", "va_env3", "va_env4", "va_env5" >>

\* a command answers with the expected text, with other text, or fails
TextResults(expect) ==
    { Res(0, {expect}, {}), Res(0, {"other"}, {}), Res(1, {}, {"error"}) }

\* 0. ENVIRONMENT CHECK: one iteration of the loop over env_checks
vall_env ==
    /\ script = "vall"
    /\ \E i \in 1..Len(env_checks) :
          /\ pc = EnvPcs[i]
          /\ \E r \in TextResults(env_checks[i].expect) :
                IF In(env_checks[i].expect, vall_run(r).out)
                THEN Goto(env_checks[i].label, "PASS", {}, r,
                          IF i < Len(env_checks) THEN EnvPcs[i + 1]
                          ELSE "va_ns")
                ELSE Exit1(env_checks[i].label, "FAIL", {}, r)
    /\ UNCHANGED << script, live, terms, banner, httpLog, loadCount, failed >>

\* 1. NAMESPACE
vall_namespace ==
    /\ script = "vall" /\ pc = "va_ns"
    /\ \E r \in NsResults :
          IF In("Active", vall_run(r).out)
          THEN Goto("namespace", "PASS", {}, r, "va_pods")
          ELSE Exit1("namespace", "FAIL", {}, r)
    /\ UNCHANGED << script, live, terms, banner, httpLog, loadCount, failed >>

\* any(s in line for s in bad_states), line being one line of the listing
LineIsBad(line) == \E s \in bad_states : In(s, {line.name, line.status})

\* names of the pods whose line mentions a bad state
Issues(items) ==
    { items[i].name : i \in { j \in 1..Len(items) : LineIsBad(items[j]) } }

\* 2. POD HEALTH
vall_pods ==
    /\ script = "vall" /\ pc = "va_pods"
    /\ \E r \in PodsResults :
          LET pods == vall_run(r)
          IN  IF In("No resources", pods.out)
              THEN Exit1("pods", "FAIL", {}, r)
              ELSE IF Issues(pods.items) # {}
                   THEN Exit1("pods", "FAIL", Issues(pods.items), r)
                   ELSE Goto("pods", "PASS", {}, r, "va_api_launch")
    /\ UNCHANGED << script, live, terms, banner, httpLog, loadCount, failed >>

\* subprocess.Popen("kubectl port-forward ...") followed by time.sleep
Launch(f, next) ==
    /\ live' = live \cup {f}
    /\ pc' = next
    /\ UNCHANGED << script, log, terms, exitCode, banner, httpLog, loadCount,
                    failed >>

\* <forward>.terminate(): SIGTERM to the process Popen started, which is
\* the forwarding process only when the shell replaced itself by it
Terminate(f, next) ==
    /\ live' = IF args.shell_execs THEN live \ {f} ELSE live
    /\ terms' = [terms EXCEPT ![f] = @ + 1]
    /\ pc' = next
    /\ UNCHANGED << script, log, exitCode, banner, httpLog, loadCount,
                    failed >>

\* curl -s http://localhost:<port>...: a body with the expected text, the
\* same in upper case, no connection (non-zero status, nothing on stdout),
\* or bytes that the text decoding of check_output rejects
\* (UnicodeDecodeError)
CurlResults(expect, upper) ==
    { Res(0, {expect}, {}), Res(0, {upper}, {}), Res(1, {}, {}),
      [Res(0, {"bytes"}, {}) EXCEPT !.exc = TRUE] }

\* 3. API HEALTH
vall_api_launch ==
    /\ script = "vall" /\ pc = "va_api_launch"
    /\ Launch("api_pf", "va_api_probe")

vall_api_probe ==
    /\ script = "vall" /\ pc = "va_api_probe"
    /\ \E r \in CurlResults("status:ok", "OK") :
          IF In("ok", Lower(vall_run(r).out))
          THEN Goto("probe:api", "PASS", {}, r, "va_api_term")
          ELSE Goto("probe:api", "FAIL", {}, r, "va_api_term")
    /\ Request(Port("api_pf"))
    /\ UNCHANGED << script, live, terms, banner, loadCount, failed >>

vall_api_terminate ==
    /\ script = "vall" /\ pc = "va_api_term"
    /\ Terminate("api_pf", "va_web_launch")

\* 4. WEB UI HEALTH
vall_web_launch ==
    /\ script = "vall" /\ pc = "va_web_launch"
    /\ Launch("web_pf", "va_web_probe")

vall_web_probe ==
    /\ script = "vall" /\ pc = "va_web_probe"
    /\ \E r \in CurlResults("<html", "<HTML") :
          IF In("<html", Lower(vall_run(r).out))
          THEN Goto("probe:web", "PASS", {}, r, "va_web_term")
          ELSE Goto("probe:web", "FAIL", {}, r, "va_web_term")
    /\ Request(Port("web_pf"))
    /\ UNCHANGED << script, live, terms, banner, loadCount, failed >>

vall_web_terminate ==
    /\ script = "vall" /\ pc = "va_web_term"
    /\ Terminate("web_pf", "va_mongo_pod")

\* kubectl get pods -o name | grep <name>: the pod name, or nothing
PodNameResults == { Res(0, {"pod/name"}, {}), Res(1, {}, {}) }

\* a command answers with the expected text or without it
TwoResults(expect) == { Res(0, {expect}, {}), Res(1, {}, {"error"}) }

\* 5. MongoDB CHECK: the pod lookup
vall_mongo_pod ==
    /\ script = "vall" /\ pc = "va_mongo_pod"
    /\ \E r \in PodNameResults :
          IF vall_run(r).out = {}
          THEN Exit1("store:mongo-pod", "FAIL", {}, r)
          ELSE Goto("store:mongo-pod", "PASS", {}, r, "va_mongo")
    /\ UNCHANGED << script, live, terms, banner, httpLog, loadCount, failed >>

\* 5. MongoDB CHECK: the ping
vall_mongo ==
    /\ script = "vall" /\ pc = "va_mongo"
    /\ \E r \in TwoResults("\"ok\" : 1") :
          IF In("\"ok\" : 1", vall_run(r).out)
          THEN Goto("store:mongo", "PASS", {}, r, "va_kafka_pod")
          ELSE Goto("store:mongo", "FAIL", {}, r, "va_kafka_pod")
    /\ UNCHANGED << script, live, terms, banner, httpLog, loadCount, failed >>

\* 6. Kafka CHECK: the pod lookup
vall_kafka_pod ==
    /\ script = "vall" /\ pc = "va_kafka_pod"
    /\ \E r \in PodNameResults :
          IF vall_run(r).out = {}
          THEN Exit1("store:kafka-pod", "FAIL", {}, r)
          ELSE Goto("store:kafka-pod", "PASS", {}, r, "va_kafka")
    /\ UNCHANGED << script, live, terms, banner, httpLog, loadCount, failed >>

\* 6. Kafka CHECK: produce (result ignored), then consume
vall_kafka ==
    /\ script = "vall" /\ pc = "va_kafka"
    /\ \E r \in TwoResults("testmsg") :
          IF In("testmsg", vall_run(r).out)
          THEN Goto("store:kafka", "PASS", {}, r, "va_hpa")
          ELSE Goto("store:kafka", "FAIL", {}, r, "va_hpa")
    /\ UNCHANGED << script, live, terms, banner, httpLog, loadCount, failed >>

\* kubectl get hpa -n <NAMESPACE>: a listing, or none with the message on
\* stdout or on stderr
HpaResults ==
    { Res(0, {"NAME"}, {}), Res(0, {"No resources found"}, {}),
      Res(0, {}, {"No resources found"}) }

HpaAbsent(r) == In("No resources", r.out \cup r.err)

\* 7. HPA & CUSTOM METRICS CHECK: the HPA
vall_hpa ==
    /\ script = "vall" /\ pc = "va_hpa"
    /\ \E r \in HpaResults :
          IF In("No resources", vall_run(r).out)
          THEN Goto("autoscaling:hpa", "FAIL", {}, r, "va_metrics")
          ELSE Goto("autoscaling:hpa", "PASS", {}, r, "va_metrics")
    /\ UNCHANGED << script, live, terms, banner, httpLog, loadCount, failed >>

\* 7. HPA & CUSTOM METRICS CHECK: the custom metric
vall_metrics ==
    /\ script = "vall" /\ pc = "va_metrics"
    /\ \E r \in TwoResults("request_latency_seconds") :
          IF In("request_latency_seconds", vall_run(r).out)
          THEN Goto("metrics", "PASS", {}, r, "va_load")
          ELSE Goto("metrics", "FAIL", {}, r, "va_load")
    /\ UNCHANGED << script, live, terms, banner, httpLog, loadCount, failed >>

\* 8. LIGHT AUTOSCALING LOAD: one iteration of the loop
vall_load ==
    /\ script = "vall" /\ pc = "va_load"
    /\ loadCount < LoadRequests
    /\ loadCount' = loadCount + 1
    /\ Request(Port("api_pf"))
    /\ UNCHANGED << script, pc, log, live, terms, exitCode, banner, failed >>

\* 8. LIGHT AUTOSCALING LOAD: after the loop
vall_load_sent ==
    /\ script = "vall" /\ pc = "va_load"
    /\ loadCount = LoadRequests
    /\ Goto("load", "PASS", {}, Res(0, {}, {}), "va_mon1")
    /\ UNCHANGED << script, live, terms, banner, httpLog, loadCount, failed >>

\* 9. MONITORING STACK VERIFICATION: the four pod listings
monitoring_checks ==
    << "monitoring:Prometheus Operator", "monitoring:Prometheus",
       "monitoring:Grafana", "monitoring:Prometheus Adapter" >>

MonPcs == << "va_mon1", "va_mon2", "va_mon3", "va_mon4" >>

vall_monitoring ==
    /\ script = "vall"
    /\ \E i \in 1..Len(monitoring_checks) :
          /\ pc = MonPcs[i]
          /\ \E r \in TwoResults("Running") :
                Goto(monitoring_checks[i],
                     IF In("Running", vall_run(r).out) THEN "PASS" ELSE "FAIL",
                     {}, r,
                     IF i < Len(monitoring_checks) THEN MonPcs[i + 1]
                     ELSE "va_sm")
    /\ UNCHANGED << script, live, terms, banner, httpLog, loadCount, failed >>

\* 9. MONITORING STACK VERIFICATION: the ServiceMonitor
vall_servicemonitor ==
    /\ script = "vall" /\ pc = "va_sm"
    /\ \E r \in TwoResults("unityexpress") :
          IF In("unityexpress", vall_run(r).out)
          THEN Goto("monitoring:ServiceMonitor", "PASS", {}, r, "va_open_prom")
          ELSE Goto("monitoring:ServiceMonitor", "WARN", {}, r, "va_open_prom")
    /\ UNCHANGED << script, live, terms, banner, httpLog, loadCount, failed >>

\* AUTO-OPEN MONITORING UI's and AUTO-OPEN UNITYEXPRESS WEB UI: the four
\* forwards in order, each launched and handed to the browser
OpenForwards == << "prom_pf", "alert_pf", "graf_pf", "ui_pf" >>

OpenPcs == << "va_open_prom", "va_open_alert", "va_open_graf", "va_open_ui" >>

vall_open ==
    /\ script = "vall"
    /\ \E i \in 1..Len(OpenForwards) :
          /\ pc = OpenPcs[i]
          /\ Launch(OpenForwards[i],
                    IF i < Len(OpenForwards) THEN OpenPcs[i + 1] ELSE "va_end")

\* DONE
vall_done ==
    /\ script = "vall" /\ pc = "va_end"
    /\ banner' = TRUE
    /\ pc' = "done"
    /\ exitCode' = {0}
    /\ UNCHANGED << script, log, live, terms, httpLog, loadCount, failed >>

VallNext ==
    \/ vall_env
    \/ vall_namespace
    \/ vall_pods
    \/ vall_api_launch
    \/ vall_api_probe
    \/ vall_api_terminate
    \/ vall_web_launch
    \/ vall_web_probe
    \/ vall_web_terminate
    \/ vall_mongo_pod
    \/ vall_mongo
    \/ vall_kafka_pod
    \/ vall_kafka
    \/ vall_hpa
    \/ vall_metrics
    \/ vall_load
    \/ vall_load_sent
    \/ vall_monitoring
    \/ vall_servicemonitor
    \/ vall_open
    \/ vall_done

\* ==================================================================
\* scripts/verify-cluster.py
\* ==================================================================
\* run(cmd, capture=True): stdout, also when the command failed (e.output
\* of CalledProcessError); any other exception leaves run()
vcluster_run(r) ==
    IF r.exc THEN [raised |-> TRUE, out |-> {}, items |-> <<>>]
    ELSE [raised |-> FALSE, out |-> r.out, items |-> r.items]

\* 1. Check Namespace Exists
vcluster_namespace ==
    /\ script = "vcluster" /\ pc = "vc_ns"
    /\ \E r \in NsResults :
          LET ns_output == vcluster_run(r).out
          IN  IF In("NotFound", ns_output) \/ In("No resources", ns_output)
              THEN Exit1("namespace", "FAIL", {}, r)
              ELSE Goto("namespace", "PASS", {}, r, "vc_pods")
    /\ UNCHANGED << script, live, terms, banner, httpLog, loadCount, failed >>

\* 2. Check Pods Status
vcluster_pods ==
    /\ script = "vcluster" /\ pc = "vc_pods"
    /\ \E r \in PodsResults :
          LET pods_output == vcluster_run(r)
          IN  IF In("No resources found", pods_output.out)
              THEN Exit1("pods", "FAIL", {}, r) /\ UNCHANGED failed
              ELSE IF Issues(pods_output.items) # {}
                   THEN /\ Goto("pods", "FAIL", Issues(pods_output.items), r,
                                "vc_api_launch")
                        /\ failed' = TRUE
                   ELSE /\ Goto("pods", "PASS", {}, r, "vc_api_launch")
                        /\ UNCHANGED failed
    /\ UNCHANGED << script, live, terms, banner, httpLog, loadCount >>

\* 3. Health Check API Service
vcluster_api_launch ==
    /\ script = "vcluster" /\ pc = "vc_api_launch"
    /\ Launch("api_pf", "vc_api_probe")

\* the API probe with sys.exit(1) after the [FAIL] line
vcluster_api_probe_fatal ==
    /\ script = "vcluster" /\ pc = "vc_api_probe"
    /\ \E r \in CurlResults("status:ok", "OK") :
          LET api_health == vcluster_run(r)
          IN  IF api_health.raised
              THEN Abort("probe:api", r)
              ELSE IF In("ok", Lower(api_health.out))
                   THEN Goto("probe:api", "PASS", {}, r, "vc_api_term")
                   ELSE Exit1("probe:api", "FAIL", {}, r)
    /\ Request(Port("api_pf"))
    /\ UNCHANGED << script, live, terms, banner, loadCount, failed >>

vcluster_api_probe ==
    /\ script = "vcluster" /\ pc = "vc_api_probe"
    /\ \E r \in CurlResults("status:ok", "OK") :
          LET api_health == vcluster_run(r)
          IN  IF api_health.raised
              THEN Abort("probe:api", r)
              ELSE IF In("ok", Lower(api_health.out))
                   THEN Goto("probe:api", "PASS", {}, r, "vc_api_term")
                   ELSE Goto("probe:api", "FAIL", {}, r, "vc_api_term")
    /\ Request(Port("api_pf"))
    /\ UNCHANGED << script, live, terms, banner, loadCount, failed >>

vcluster_api_terminate ==
    /\ script = "vcluster" /\ pc = "vc_api_term"
    /\ Terminate("api_pf", "vc_web_launch")

\* 4. Health Check Web Service
vcluster_web_launch ==
    /\ script = "vcluster" /\ pc = "vc_web_launch"
    /\ Launch("web_pf", "vc_web_probe")

vcluster_web_probe ==
    /\ script = "vcluster" /\ pc = "vc_web_probe"
    /\ \E r \in CurlResults("<html", "<HTML") :
          LET web_health == vcluster_run(r)
          IN  IF web_health.raised
              THEN Abort("probe:web", r)
              ELSE IF In("<html", Lower(web_health.out))
                   THEN Goto("probe:web", "PASS", {}, r, "vc_web_term")
                   ELSE Goto("probe:web", "WARN", {}, r, "vc_web_term")
    /\ Request(Port("web_pf"))
    /\ UNCHANGED << script, live, terms, banner, loadCount, failed >>

vcluster_web_terminate ==
    /\ script = "vcluster" /\ pc = "vc_web_term"
    /\ Terminate("web_pf", "vc_hpa")

\* the HPA section with sys.exit(1) after the [FAIL] line
vcluster_hpa_fatal ==
    /\ script = "vcluster" /\ pc = "vc_hpa"
    /\ \E r \in HpaResults :
          IF In("No resources", vcluster_run(r).out)
          THEN Exit1("autoscaling:hpa", "FAIL", {}, r)
          ELSE Goto("autoscaling:hpa", "PASS", {}, r, "vc_summary")
    /\ UNCHANGED << script, live, terms, banner, httpLog, loadCount, failed >>

\* 5. Check HPA Availability
vcluster_hpa ==
    /\ script = "vcluster" /\ pc = "vc_hpa"
    /\ \E r \in HpaResults :
          IF In("No resources", vcluster_run(r).out)
          THEN Goto("autoscaling:hpa", "FAIL", {}, r, "vc_summary")
          ELSE Goto("autoscaling:hpa", "PASS", {}, r, "vc_summary")
    /\ UNCHANGED << script, live, terms, banner, httpLog, loadCount, failed >>

\* 6. Final Summary
vcluster_summary ==
    /\ script = "vcluster" /\ pc = "vc_summary"
    /\ log' = IF failed
              THEN Append(log, Entry("summary", "WARN", {}, Res(0, {}, {})))
              ELSE log
    /\ banner' = TRUE
    /\ pc' = "done"
    /\ exitCode' = {0}
    /\ UNCHANGED << script, live, terms, httpLog, loadCount, failed >>

VclusterNext ==
    \/ vcluster_namespace
    \/ vcluster_pods
    \/ vcluster_api_launch
    \/ vcluster_api_probe
    \/ vcluster_api_terminate
    \/ vcluster_web_launch
    \/ vcluster_web_probe
    \/ vcluster_web_terminate
    \/ vcluster_hpa
    \/ vcluster_summary

Next == (SmokeNext \/ VallNext \/ VclusterNext) /\ UNCHANGED locatorVars

Spec == Init /\ [][Next]_vars

\* ==================================================================
\* Properties
\* ==================================================================
Terminated == exitCode # {}

\* the checks executed so far, in order
Checks == [i \in 1..Len(log) |-> log[i].check]

\* the i-th check made the process exit: it is the last one logged and the
\* process ended with a non-zero status
Halts(i) == i = Len(log) /\ exitCode = {1}

ReachabilityChecks ==
    {"reachability"} \cup { env_checks[i].label : i \in 1..Len(env_checks) }

ProbeChecks == {"probe:gateway", "probe:api", "probe:web"}

AutoscalingChecks ==
    {"autoscaling:keda", "autoscaling:scaledobject", "autoscaling:hpa"}

\* checks that come after the pod-status check: service lookups, HTTP
\* probes, store probes, autoscaling checks
LaterChecks ==
    ProbeChecks \cup AutoscalingChecks
    \cup { ServiceNames[i] : i \in 1..Len(ServiceNames) }
    \cup {"kafka", "mongo", "store:mongo-pod", "store:mongo",
          "store:kafka-pod", "store:kafka"}

\* the checks each script declares, in the order of its text
Declared(s) ==
    CASE s = "smoke" ->
           << "reachability", "namespace", "pods", "watermark" >>
           \o ServiceNames
           \o << "probe:gateway", "probe:api", "kafka", "mongo",
                 "autoscaling:keda", "autoscaling:scaledobject" >>
      [] s = "vall" ->
           [i \in 1..Len(env_checks) |-> env_checks[i].label]
           \o << "namespace", "pods", "probe:api", "probe:web",
                 "store:mongo-pod", "store:mongo", "store:kafka-pod",
                 "store:kafka", "autoscaling:hpa", "metrics", "load" >>
           \o monitoring_checks
           \o << "monitoring:ServiceMonitor" >>
      [] s = "vcluster" ->
           << "namespace", "pods", "probe:api", "probe:web",
              "autoscaling:hpa" >>

\* every declared check was executed, in the declared order
RanAllDeclared ==
    /\ Len(log) >= Len(Declared(script))
    /\ SubSeq(Checks, 1, Len(Declared(script))) = Declared(script)

\* the forwarding process f was launched at some point of the run
Launched(f) == f \in live \/ terms[f] > 0

\* the statements of the check that owns the forwarding process f
InCheck(f) ==
    CASE f = "api_pf" ->
           {"va_api_probe", "va_api_term", "vc_api_probe", "vc_api_term"}
      [] f = "web_pf" ->
           {"va_web_probe", "va_web_term", "vc_web_probe", "vc_web_term"}
      [] OTHER -> {}

\* C1: in the API and Web UI health checks the forwarding process is
\* terminated exactly once on every exit path; once the check has returned
\* or the script was aborted, the process is not alive.
C1_ForwardTerminatedOnce ==
    \A f \in {"api_pf", "web_pf"} :
        /\ terms[f] <= 1
        /\ Launched(f) /\ pc \notin InCheck(f) => f \notin live /\ terms[f] = 1

\* C2: in every terminal state of verify-all.py and verify-cluster.py
\* (normal completion or exit) no forwarding process started by the run is
\* alive.
C2_NoLiveForwardAtExit ==
    Terminated /\ script \in {"vall", "vcluster"} => live = {}

\* the checks the specification makes fatal: tool and cluster reachability,
\* namespace existence, pod status
FatalChecks == ReachabilityChecks \cup {"namespace", "pods"}

\* C3: when a fatal check fails, no check declared after it is executed:
\* the run halts at the first FAIL of a fatal check.
C3_HaltAtFirstFatalFail ==
    \A i \in 1..Len(log) :
        log[i].check \in FatalChecks /\ log[i].verdict = "FAIL" => Halts(i)

\* C4: when the pod list holds a pod in a known-bad state, the pod-status
\* check reports FAIL naming such a pod and the process ends with a
\* non-zero status.
C4_BadPodIsFatal ==
    \A i \in 1..Len(log) :
        log[i].check = "pods" /\ BadPods(log[i].res) # {}
        => /\ log[i].verdict = "FAIL"
           /\ log[i].detail \cap BadPods(log[i].res) # {}
           /\ Halts(i)

\* C5: when the namespace is absent, or present without pods, the script
\* ends with exit code 1 at that check, on whichever stream and with
\* whichever exit status the CLI reports the absence.
C5_AbsenceIsFatal ==
    \A i \in 1..Len(log) :
        \/ log[i].check = "namespace" /\ NsAbsent(log[i].res)
        \/ log[i].check = "pods" /\ PodsAbsent(log[i].res)
        => Halts(i)

AllPass == \A i \in 1..Len(log) : log[i].verdict = "PASS"

\* C6: a run in which every check passes executes every declared check,
\* prints the final banner and exits with code 0.
C6_AllPassExitsZero ==
    Terminated /\ AllPass => RanAllDeclared /\ banner /\ exitCode = {0}

C6_Witness ==
    /\ Terminated /\ AllPass /\ Len(log) > 0
    /\ script = "vall" /\ banner

\* the HTTP request got no response (connection refused, timeout)
ProbeFailed(r) == r.rc # 0 /\ ~r.exc

FailedProbe(i) == log[i].check \in ProbeChecks /\ ProbeFailed(log[i].res)

\* C7 as stated: a failed HTTP probe is reported as a warning, the checks
\* after it are still executed and it never makes the process exit with a
\* non-zero status.
C7_ProbeFailureIsWarning ==
    \A i \in 1..Len(log) :
        FailedProbe(i) => log[i].verdict = "WARN" /\ ~Halts(i)

\* the label the scripts print for a failed probe
ProbeLabel(s, c) == IF s = "vcluster" /\ c = "probe:web" THEN "WARN" ELSE "FAIL"

\* C7 amended: a failed HTTP probe is non-fatal; it is printed as FAIL
\* (as WARN only by the Web UI check of verify-cluster.py), the next check
\* is executed, and a run whose only non-passing checks are failed probes
\* executes every declared check and exits with code 0.
C7_ProbeFailureNonFatal ==
    /\ \A i \in 1..Len(log) :
          FailedProbe(i)
          => log[i].verdict = ProbeLabel(script, log[i].check) /\ ~Halts(i)
    /\ Terminated /\ (\A i \in 1..Len(log) :
                         log[i].verdict # "PASS" => FailedProbe(i))
       => RanAllDeclared /\ banner /\ exitCode = {0}

C7_Witness ==
    /\ exitCode = {0}
    /\ \E i \in 1..Len(log) : FailedProbe(i) /\ i < Len(log)

\* the autoscaling resource the check looks for is absent
AutoscalingAbsent(i) ==
    /\ log[i].check \in AutoscalingChecks
    /\ IF log[i].check = "autoscaling:scaledobject"
       THEN log[i].res.out = {}
       ELSE In("No resources", log[i].res.out \cup log[i].res.err)

AbsenceLabel(c, r) ==
    CASE c = "autoscaling:hpa" ->
           IF In("No resources", r.out) THEN "FAIL" ELSE "PASS"
      [] c = "autoscaling:keda" -> "PASS"
      [] c = "autoscaling:scaledobject" -> "NOTE"

C9_WarnNeverHalts ==
    /\ \A i \in 1..Len(log) : log[i].verdict = "WARN" => ~Halts(i)
    /\ Terminated /\ (\A i \in 1..Len(log) :
                         log[i].verdict \in {"PASS", "WARN"})
       => RanAllDeclared /\ banner /\ exitCode = {0}

C9_Witness ==
    /\ exitCode = {0}
    /\ \E i \in 1..Len(log) : log[i].verdict = "WARN"
    /\ \A i \in 1..Len(log) : log[i].verdict \in {"PASS", "WARN"}

\* some check of the set a was executed before the j-th check
Before(a, j) == \E i \in 1..(j - 1) : log[i].check \in a

NamespaceFirst ==
    \A j \in 1..Len(log) : log[j].check = "pods" => Before({"namespace"}, j)

PodsFirst ==
    \A j \in 1..Len(log) : log[j].check \in LaterChecks => Before({"pods"}, j)

ReachabilityFirst ==
    \A j \in 1..Len(log) :
        log[j].check = "namespace" => Before(ReachabilityChecks, j)

\* C10 as stated: in every run of every script reachability is checked
\* before the namespace check, the namespace check before the pod-status
\* check, the pod-status check before any service probe, store probe or
\* autoscaling check.
C10_DependenciesFirst == ReachabilityFirst /\ NamespaceFirst /\ PodsFirst

\* C10 amended: the checks run in the declared order; smoke_test.py and
\* verify-all.py check reachability before the namespace, verify-cluster.py
\* has no reachability check and starts with the namespace check; in all
\* three the namespace check precedes the pod-status check and the
\* pod-status check precedes every service probe, store probe and
\* autoscaling check.
C10_DeclaredOrder ==
    /\ script # "vcluster" => ReachabilityFirst
    /\ script = "vcluster" => \A i \in 1..Len(log) :
                                 log[i].check \notin ReachabilityChecks
    /\ NamespaceFirst
    /\ PodsFirst
    /\ \A i \in 1..Len(log) :
          i <= Len(Declared(script)) => log[i].check = Declared(script)[i]

C10_Witness ==
    /\ script = "vcluster"
    /\ \E j \in 1..Len(log) : log[j].check = "autoscaling:hpa"

\* ==================================================================
\* Project root detection
\*   "find_project_root"  scripts/deploy.py, find_project_root()
\*   "verify_structure"   scripts/verify-structure.py, module body
\* A directory is the sequence of its path components, <<>> being the
\* filesystem root; a filesystem is the set of directories that exist.
\* ==================================================================
\* deepest directory of a filesystem
MaxDepth == 3

\* required_dirs of find_project_root
required_dirs == {"api-server", "charts", "monitoring", "scripts"}

\* the three os.path.isdir tests of verify-structure.py
structure_dirs == {"api-server", "charts", "scripts"}

Locators == {"find_project_root", "verify_structure"}

\* the marker set each locator tests
Markers(s) ==
    IF s = "find_project_root" THEN required_dirs ELSE structure_dirs

\* Path.parent / os.path.abspath(os.path.join(p, "..")): the root is its
\* own parent
Parent(p) == IF p = <<>> THEN p ELSE SubSeq(p, 1, Len(p) - 1)

\* p and the directories above it
Ancestors(p) == { SubSeq(p, 1, n) : n \in 0..Len(p) }

\* all((current / d).is_dir() for d in required_dirs)
HasMarkers(fs, p, markers) == \A d \in markers : Append(p, d) \in fs

\* CURRENT_DIR.endswith("scripts"): a test on the text of the path
EndsWithScripts(p) ==
    p # <<>> /\ p[Len(p)] \in {"scripts", "myscripts"}

\* directories that may hold marker directories
RECURSIVE ProjectDirs(_)
ProjectDirs(n) ==
    IF n = 0 THEN { <<>> }
    ELSE LET shorter == ProjectDirs(n - 1)
         IN  shorter \cup
             { Append(q, name) : q \in { x \in shorter : Len(x) = n - 1 },
                                 name \in {"proj", "scripts"} }

\* the marker directories a project directory may hold: all of them, all
\* but monitoring, or too few for either locator
MarkerOptions == { required_dirs, structure_dirs, {"api-server", "charts"} }

\* the directories created by giving project directory q the markers m
Tree(q, m) == UNION { Ancestors(Append(q, d)) : d \in m }

\* filesystems: at most two directories holding marker directories
FileSystems ==
    LET one == { Tree(q, m) : q \in ProjectDirs(MaxDepth - 1),
                              m \in MarkerOptions }
    IN  { { <<>> } } \cup one \cup { a \cup b : a \in one, b \in one }

\* where the script file may lie: an existing directory, or a directory of
\* its own below one
StartDirs(fs) ==
    fs \cup { Append(q, name) : q \in { x \in fs : Len(x) < MaxDepth },
                                name \in {"sub", "myscripts"} }

LocatorInputs ==
    UNION { { [fs |-> fs \cup Ancestors(st), start |-> st] :
                st \in StartDirs(fs) } : fs \in FileSystems }

InitRoot ==
    /\ script \in Locators
    /\ args \in LocatorInputs
    /\ pc = IF script = "find_project_root" THEN "fpr_loop" ELSE "vs_detect"
    /\ current = args.start
    /\ root = {}
    /\ log = <<>>
    /\ live = {}
    /\ terms = [f \in Forwards |-> 0]
    /\ exitCode = {}
    /\ banner = FALSE
    /\ httpLog = {}
    /\ loadCount = 0
    /\ failed = FALSE

\* the variables no root locator touches
pipelineVars ==
    << script, log, live, terms, banner, httpLog, loadCount, failed, args >>

\* find_project_root returning the outermost directory with the markers
fpr_return_outermost ==
    /\ script = "find_project_root" /\ pc = "fpr_loop"
    /\ HasMarkers(args.fs, current, required_dirs)
    /\ root' = { CHOOSE a \in Ancestors(current) :
                    /\ HasMarkers(args.fs, a, required_dirs)
                    /\ \A b \in Ancestors(current) :
                          HasMarkers(args.fs, b, required_dirs)
                              => Len(a) <= Len(b) }
    /\ pc' = "returned"
    /\ UNCHANGED << current, exitCode, pipelineVars >>

\* find_project_root: if all(...): return current
fpr_return ==
    /\ script = "find_project_root" /\ pc = "fpr_loop"
    /\ HasMarkers(args.fs, current, required_dirs)
    /\ root' = {current}
    /\ pc' = "returned"
    /\ UNCHANGED << current, exitCode, pipelineVars >>

\* find_project_root: current = parent
fpr_parent ==
    /\ script = "find_project_root" /\ pc = "fpr_loop"
    /\ ~HasMarkers(args.fs, current, required_dirs)
    /\ Parent(current) # current
    /\ current' = Parent(current)
    /\ UNCHANGED << pc, root, exitCode, pipelineVars >>

\* find_project_root: if parent == current: raise click.ClickException;
\* the subcommand that called it prints the error and calls sys.exit(1)
fpr_raise ==
    /\ script = "find_project_root" /\ pc = "fpr_loop"
    /\ ~HasMarkers(args.fs, current, required_dirs)
    /\ Parent(current) = current
    /\ pc' = "raised"
    /\ exitCode' = {1}
    /\ UNCHANGED << current, root, pipelineVars >>

\* verify-structure.py: if CURRENT_DIR.endswith("scripts"): one level up
vs_scripts ==
    /\ script = "verify_structure" /\ pc = "vs_detect"
    /\ EndsWithScripts(args.start)
    /\ root' = {Parent(args.start)}
    /\ pc' = "returned"
    /\ UNCHANGED << current, exitCode, pipelineVars >>

\* verify-structure.py: else: candidate = CURRENT_DIR
vs_search ==
    /\ script = "verify_structure" /\ pc = "vs_detect"
    /\ ~EndsWithScripts(args.start)
    /\ current' = args.start
    /\ pc' = "vs_loop"
    /\ UNCHANGED << root, exitCode, pipelineVars >>

\* verify-structure.py: FOUND = True; PROJECT_ROOT = candidate; break
vs_found ==
    /\ script = "verify_structure" /\ pc = "vs_loop"
    /\ HasMarkers(args.fs, current, structure_dirs)
    /\ root' = {current}
    /\ pc' = "returned"
    /\ UNCHANGED << current, exitCode, pipelineVars >>

\* verify-structure.py: candidate = parent
vs_parent ==
    /\ script = "verify_structure" /\ pc = "vs_loop"
    /\ ~HasMarkers(args.fs, current, structure_dirs)
    /\ Parent(current) # current
    /\ current' = Parent(current)
    /\ UNCHANGED << pc, root, exitCode, pipelineVars >>

\* verify-structure.py: break at the filesystem root; if not FOUND:
\* sys.exit(1)
vs_not_found ==
    /\ script = "verify_structure" /\ pc = "vs_loop"
    /\ ~HasMarkers(args.fs, current, structure_dirs)
    /\ Parent(current) = current
    /\ pc' = "raised"
    /\ exitCode' = {1}
    /\ UNCHANGED << current, root, pipelineVars >>

NextRoot ==
    \/ fpr_return
    \/ fpr_parent
    \/ fpr_raise
    \/ vs_scripts
    \/ vs_search
    \/ vs_found
    \/ vs_parent
    \/ vs_not_found

SpecRoot == InitRoot /\ [][NextRoot]_vars

\* the locator has finished
Located == pc \in {"returned", "raised"}

\* directories at or above the start that hold every marker
Qualifying ==
    { a \in Ancestors(args.start) : HasMarkers(args.fs, a, Markers(script)) }

\* C11: started strictly inside a valid project tree (one directory above
\* the start holds every marker), the locator returns that directory.
C11_ReturnsTheProjectRoot ==
    Located /\ Cardinality(Qualifying) = 1 /\ args.start \notin Qualifying
    => root = Qualifying

\* C12: started outside every valid project tree, the locator signals
\* NotFoundError and returns no path.
C12_NotFoundOutside ==
    Located /\ Qualifying = {} => pc = "raised" /\ root = {} /\ exitCode = {1}

\* C13: a directory is taken as project root only if every marker
\* directory exists under it.
C13_RootHasAllMarkers ==
    \A r \in root : HasMarkers(args.fs, r, Markers(script))

\* ==================================================================
\* scripts/deploy.py: the deploy and destroy subcommands
\* The log holds the commands handed to run_command, in order: the
\* command, what run_command did ("OUTPUT", "NONE", "RAISED"), the flags
\* of the call and of the command line, and the command's result.
\* ==================================================================
\* the command lines: subcommand and options, and for destroy whether the
\* confirmation was given (answer to the prompt, or --yes); with them,
\* whether the monitoring values file of the project exists
CliArgs ==
    { [cmd |-> "deploy", skip_monitoring |-> a, no_cache |-> b,
       dry_run |-> c, confirmed |-> FALSE, values_file |-> v] :
          a, b, c, v \in BOOLEAN }
    \cup { [cmd |-> "destroy", skip_monitoring |-> FALSE, no_cache |-> FALSE,
            dry_run |-> FALSE, confirmed |-> c, values_file |-> TRUE] :
               c \in BOOLEAN }

InitCli ==
    /\ script = "cli"
    /\ args \in CliArgs
    /\ pc = IF args.cmd = "deploy" THEN "d_root" ELSE "x_confirm"
    /\ current = <<>>
    /\ root = {}
    /\ log = <<>>
    /\ live = {}
    /\ terms = [f \in Forwards |-> 0]
    /\ exitCode = {}
    /\ banner = FALSE
    /\ httpLog = {}
    /\ loadCount = 0
    /\ failed = FALSE

\* the variables no subcommand touches
cliIdle ==
    << script, live, terms, httpLog, loadCount, failed, args, current, root >>

\* run_command(cmd, check, capture) without the non-capture branch's test
\* of the return code
run_command_unchecked(r, check, capture) ==
    IF capture
    THEN IF r.rc # 0
         THEN IF check THEN [raised |-> TRUE, verdict |-> "RAISED"]
              ELSE [raised |-> FALSE, verdict |-> "NONE"]
         ELSE [raised |-> FALSE, verdict |-> "OUTPUT"]
    ELSE [raised |-> FALSE, verdict |-> "NONE"]

\* run_command(cmd, check, capture): the output, None, or ClickException
run_command(r, check, capture) ==
    IF capture
    THEN IF r.rc # 0
         THEN IF check THEN [raised |-> TRUE, verdict |-> "RAISED"]
              ELSE [raised |-> FALSE, verdict |-> "NONE"]
         ELSE [raised |-> FALSE, verdict |-> "OUTPUT"]
    ELSE IF check /\ r.rc # 0
         THEN [raised |-> TRUE, verdict |-> "RAISED"]
         ELSE [raised |-> FALSE, verdict |-> "NONE"]

CallFlags(check, capture) ==
    (IF check THEN {"check"} ELSE {}) \cup (IF capture THEN {"capture"} ELSE {})

\* one call of run_command: the script goes on at `next`, or at `caught`
\* when the ClickException is raised ("exited": the subcommand's handler
\* prints the error and calls sys.exit(1))
Ran(c, flags, r, check, capture, next, caught) ==
    LET o == run_command(r, check, capture)
    IN  /\ log' = Append(log, Entry(c, o.verdict,
                                    flags \cup CallFlags(check, capture), r))
        /\ pc' = IF o.raised THEN caught ELSE next
        /\ exitCode' = IF o.raised /\ caught = "exited" THEN {1} ELSE exitCode

\* deploy: project_root = find_project_root(), found or ClickException
cli_find_root ==
    /\ args.cmd = "deploy" /\ pc = "d_root"
    /\ \E found \in BOOLEAN :
          IF found THEN pc' = "d_tool1" /\ UNCHANGED exitCode
          ELSE pc' = "exited" /\ exitCode' = {1}
    /\ UNCHANGED << log, banner, cliIdle >>

required_tools == << "minikube", "kubectl", "helm", "docker" >>

ToolPcs == << "d_tool1", "d_tool2", "d_tool3", "d_tool4" >>

ToolCmds ==
    << "minikube version", "kubectl version", "helm version",
       "docker version" >>

\* the tools whose version command raised
Missing(l) ==
    { i \in 1..Len(required_tools) :
        \E j \in 1..Len(l) :
            l[j].check = ToolCmds[i] /\ l[j].verdict = "RAISED" }

\* validate_environment: check_prerequisites(), one iteration of its loop;
\* after the last one, ClickException when a tool is missing
cli_check_prerequisites ==
    /\ args.cmd = "deploy"
    /\ \E i \in 1..Len(required_tools) :
          /\ pc = ToolPcs[i]
          /\ \E r \in CmdResults :
                /\ log' = Append(log,
                       Entry(ToolCmds[i], run_command(r, TRUE, TRUE).verdict,
                             CallFlags(TRUE, TRUE), r))
                /\ IF i < Len(required_tools)
                   THEN pc' = ToolPcs[i + 1] /\ UNCHANGED exitCode
                   ELSE IF Missing(log') # {}
                        THEN pc' = "exited" /\ exitCode' = {1}
                        ELSE pc' = "d_minikube" /\ UNCHANGED exitCode
    /\ UNCHANGED << banner, cliIdle >>

\* validate_environment going on after a failed minikube status
cli_minikube_status_ignored ==
    /\ args.cmd = "deploy" /\ pc = "d_minikube"
    /\ \E r \in CmdResults :
          Ran("minikube status", {}, r, TRUE, FALSE, "d_values", "d_values")
    /\ UNCHANGED << banner, cliIdle >>

\* validate_environment: minikube status; its exception is re-raised
cli_minikube_status ==
    /\ args.cmd = "deploy" /\ pc = "d_minikube"
    /\ \E r \in CmdResults :
          Ran("minikube status", {}, r, TRUE, FALSE, "d_values", "exited")
    /\ UNCHANGED << banner, cliIdle >>

\* validate_environment's end with the --skip-monitoring test left out
cli_monitoring_values_no_skip ==
    /\ args.cmd = "deploy" /\ pc = "d_values"
    /\ IF args.values_file
       THEN pc' = "d_helm_status" /\ UNCHANGED exitCode
       ELSE pc' = "exited" /\ exitCode' = {1}
    /\ UNCHANGED << log, banner, cliIdle >>

\* validate_environment: config.monitoring_values.exists(); then deploy
\* enters install_monitoring unless --skip-monitoring
cli_monitoring_values ==
    /\ args.cmd = "deploy" /\ pc = "d_values"
    /\ IF args.values_file
       THEN /\ pc' = IF args.skip_monitoring THEN "d_docker_env"
                     ELSE "d_helm_status"
            /\ UNCHANGED exitCode
       ELSE pc' = "exited" /\ exitCode' = {1}
    /\ UNCHANGED << log, banner, cliIdle >>

\* install_monitoring(skip_if_exists=True): helm status monitoring; the
\* release exists (return) or the exception is swallowed (install)
cli_helm_status ==
    /\ args.cmd = "deploy" /\ pc = "d_helm_status"
    /\ \E r \in CmdResults :
          Ran("helm status monitoring", {}, r, TRUE, TRUE, "d_docker_env",
              "d_repo_add")
    /\ UNCHANGED << banner, cliIdle >>

\* install_monitoring: helm repo add
cli_repo_add ==
    /\ args.cmd = "deploy" /\ pc = "d_repo_add"
    /\ \E r \in CmdResults :
          Ran("helm repo add", {}, r, TRUE, FALSE, "d_repo_update", "exited")
    /\ UNCHANGED << banner, cliIdle >>

\* install_monitoring: helm repo update
cli_repo_update ==
    /\ args.cmd = "deploy" /\ pc = "d_repo_update"
    /\ \E r \in CmdResults :
          Ran("helm repo update", {}, r, TRUE, FALSE, "d_install_monitoring",
              "exited")
    /\ UNCHANGED << banner, cliIdle >>

\* install_monitoring: helm upgrade --install monitoring ... --wait
cli_install_monitoring ==
    /\ args.cmd = "deploy" /\ pc = "d_install_monitoring"
    /\ \E r \in CmdResults :
          Ran("helm install monitoring", {}, r, TRUE, FALSE, "d_docker_env",
              "exited")
    /\ UNCHANGED << banner, cliIdle >>

\* build_images: configure_docker_env(); a failure is a warning
cli_docker_env ==
    /\ args.cmd = "deploy" /\ pc = "d_docker_env"
    /\ \E r \in CmdResults :
          Ran("minikube docker-env", {}, r, TRUE, TRUE, "d_build_api",
              "d_build_api")
    /\ UNCHANGED << banner, cliIdle >>

CacheFlag == IF args.no_cache THEN {"--no-cache"} ELSE {}

\* build_images: docker build of the API image
cli_build_api ==
    /\ args.cmd = "deploy" /\ pc = "d_build_api"
    /\ \E r \in CmdResults :
          Ran("docker build api", CacheFlag, r, TRUE, FALSE, "d_build_web",
              "exited")
    /\ UNCHANGED << banner, cliIdle >>

\* build_images: docker build of the Web image
cli_build_web ==
    /\ args.cmd = "deploy" /\ pc = "d_build_web"
    /\ \E r \in CmdResults :
          Ran("docker build web", CacheFlag, r, TRUE, FALSE, "d_helm_app",
              "exited")
    /\ UNCHANGED << banner, cliIdle >>

\* deploy_application: helm upgrade --install unityexpress [--dry-run]
cli_helm_app ==
    /\ args.cmd = "deploy" /\ pc = "d_helm_app"
    /\ \E r \in CmdResults :
          Ran("helm install unityexpress",
              IF args.dry_run THEN {"--dry-run"} ELSE {}, r, TRUE, FALSE,
              IF args.dry_run THEN "d_end" ELSE "d_wait", "exited")
    /\ UNCHANGED << banner, cliIdle >>

\* deploy_application: kubectl wait, check=False
cli_wait ==
    /\ args.cmd = "deploy" /\ pc = "d_wait"
    /\ \E r \in CmdResults :
          Ran("kubectl wait", {}, r, FALSE, FALSE, "d_show_status",
              "exited")
    /\ UNCHANGED << banner, cliIdle >>

\* show_status(): kubectl get pods
cli_show_status ==
    /\ args.cmd = "deploy" /\ pc = "d_show_status"
    /\ \E r \in CmdResults :
          Ran("kubectl get pods", {}, r, TRUE, TRUE, "d_url_gateway",
              "exited")
    /\ UNCHANGED << banner, cliIdle >>

\* get_service_urls(): the gateway URL, "N/A" on an exception
cli_url_gateway ==
    /\ args.cmd = "deploy" /\ pc = "d_url_gateway"
    /\ \E r \in CmdResults :
          Ran("minikube service gateway", {}, r, TRUE, TRUE, "d_url_api",
              "d_url_api")
    /\ UNCHANGED << banner, cliIdle >>

\* get_service_urls(): the API URL, "N/A" on an exception
cli_url_api ==
    /\ args.cmd = "deploy" /\ pc = "d_url_api"
    /\ \E r \in CmdResults :
          Ran("minikube service api", {}, r, TRUE, TRUE, "d_complete",
              "d_complete")
    /\ UNCHANGED << banner, cliIdle >>

\* deploy: "Deployment Complete!"
cli_complete ==
    /\ args.cmd = "deploy" /\ pc = "d_complete"
    /\ banner' = TRUE
    /\ pc' = "done"
    /\ exitCode' = {0}
    /\ UNCHANGED << log, cliIdle >>

\* deploy --dry-run: the subcommand returns after deploy_application
cli_dry_run_end ==
    /\ args.cmd = "deploy" /\ pc = "d_end"
    /\ pc' = "done"
    /\ exitCode' = {0}
    /\ UNCHANGED << log, banner, cliIdle >>

\* destroy entered without its confirmation option
cli_destroy_unconfirmed ==
    /\ args.cmd = "destroy" /\ pc = "x_confirm"
    /\ pc' = "x_uninstall"
    /\ UNCHANGED << log, exitCode, banner, cliIdle >>

\* @click.confirmation_option: the body of destroy runs only when the
\* confirmation was given, otherwise the command is aborted
cli_destroy_confirm ==
    /\ args.cmd = "destroy" /\ pc = "x_confirm"
    /\ IF args.confirmed
       THEN pc' = "x_uninstall" /\ UNCHANGED exitCode
       ELSE pc' = "aborted" /\ exitCode' = {1}
    /\ UNCHANGED << log, banner, cliIdle >>

\* destroy with helm uninstall run as a checked command
cli_uninstall_checked ==
    /\ args.cmd = "destroy" /\ pc = "x_uninstall"
    /\ \E r \in CmdResults :
          Ran("helm uninstall", {}, r, TRUE, FALSE, "x_delete_ns", "exited")
    /\ UNCHANGED << banner, cliIdle >>

\* destroy: helm uninstall unityexpress, check=False
cli_uninstall ==
    /\ args.cmd = "destroy" /\ pc = "x_uninstall"
    /\ \E r \in CmdResults :
          Ran("helm uninstall", {}, r, FALSE, FALSE, "x_delete_ns", "exited")
    /\ UNCHANGED << banner, cliIdle >>

\* destroy: kubectl delete namespace, then "Deployment destroyed"
cli_delete_namespace ==
    /\ args.cmd = "destroy" /\ pc = "x_delete_ns"
    /\ \E r \in CmdResults :
          LET o == run_command(r, TRUE, FALSE)
          IN  /\ log' = Append(log, Entry("kubectl delete namespace",
                                          o.verdict, CallFlags(TRUE, FALSE), r))
              /\ IF o.raised
                 THEN pc' = "exited" /\ exitCode' = {1} /\ UNCHANGED banner
                 ELSE pc' = "done" /\ exitCode' = {0} /\ banner' = TRUE
    /\ UNCHANGED cliIdle

NextCli ==
    \/ cli_find_root
    \/ cli_check_prerequisites
    \/ cli_minikube_status
    \/ cli_monitoring_values
    \/ cli_helm_status
    \/ cli_repo_add
    \/ cli_repo_update
    \/ cli_install_monitoring
    \/ cli_docker_env
    \/ cli_build_api
    \/ cli_build_web
    \/ cli_helm_app
    \/ cli_wait
    \/ cli_show_status
    \/ cli_url_gateway
    \/ cli_url_api
    \/ cli_complete
    \/ cli_dry_run_end
    \/ cli_destroy_confirm
    \/ cli_uninstall
    \/ cli_delete_namespace

SpecCli == InitCli /\ [][NextCli]_vars

\* ------------------------------------------------------------------
\* Properties of the deploy and destroy subcommands
\* ------------------------------------------------------------------
CliEntries == 1..Len(log)

Raised(i) == log[i].verdict = "RAISED"

DestructiveCommands == { "helm uninstall", "kubectl delete namespace" }

\* C14: in a run of destroy where the user has not confirmed, neither
\* helm uninstall nor kubectl delete namespace is executed.
C14_ConfirmedBeforeDestroying ==
    script = "cli" /\ args.cmd = "destroy" =>
        /\ (\E i \in CliEntries : log[i].check \in DestructiveCommands)
              => args.confirmed
        /\ ~args.confirmed /\ exitCode # {} => log = <<>> /\ exitCode = {1}

\* an unconfirmed destroy has ended
C14_Witness ==
    /\ script = "cli" /\ args.cmd = "destroy" /\ ~args.confirmed
    /\ pc = "aborted"

\* the commands that change the cluster, the helm repositories or the
\* image store
StateChanging ==
    { "helm repo add", "helm repo update", "helm install monitoring",
      "docker build api", "docker build web", "helm install unityexpress" }

\* C15: in deploy --dry-run every state-changing command carries the
\* dry-run flag, so that none of them changes anything.
C15_DryRunChangesNothing ==
    script = "cli" /\ args.cmd = "deploy" /\ args.dry_run =>
        \A i \in CliEntries :
            log[i].check \in StateChanging => "--dry-run" \in log[i].detail

\* the commands of the deployment steps: monitoring install, image build,
\* chart install, status
StepCommands ==
    { "helm status monitoring", "helm repo add", "helm repo update",
      "helm install monitoring", "minikube docker-env", "docker build api",
      "docker build web", "helm install unityexpress", "kubectl wait",
      "kubectl get pods", "minikube service gateway", "minikube service api" }

\* run_command raises exactly on a failure with check=True, whatever
\* capture is, and the calls in the log were answered that way
RunCommandContract ==
    /\ \A r \in CmdResults, check \in BOOLEAN, capture \in BOOLEAN :
          /\ run_command(r, check, capture).raised <=> (r.rc # 0 /\ check)
          /\ r.rc # 0 /\ ~check =>
                run_command(r, check, capture).verdict = "NONE"
    /\ \A i \in CliEntries :
          /\ Raised(i) <=> (log[i].res.rc # 0 /\ "check" \in log[i].detail)
          /\ log[i].res.rc # 0 /\ "check" \notin log[i].detail =>
                log[i].verdict = "NONE"

\* no deployment step command after entry i, and exit code 1 at the end
EndsRun(i) ==
    /\ \A j \in CliEntries : j > i => log[j].check \notin StepCommands
    /\ exitCode # {} => exitCode = {1}

\* C17 as stated: run_command's contract, and in deploy the first failing
\* checked command ends the run with exit code 1 and no later step.
C17_FirstFailureEndsRun ==
    script = "cli" =>
        /\ RunCommandContract
        /\ args.cmd = "deploy" => \A i \in CliEntries : Raised(i) => EndsRun(i)

\* the commands whose ClickException the calling step catches and survives
CaughtCommands ==
    { "helm status monitoring", "minikube docker-env",
      "minikube service gateway", "minikube service api" }

\* C17 amended: run_command's contract, and in deploy a failing checked
\* command ends the run with exit code 1 and no later step, unless the
\* calling step catches its exception (helm status monitoring, minikube
\* docker-env, the two service URL lookups).
C17_UncaughtFailureEndsRun ==
    script = "cli" =>
        /\ RunCommandContract
        /\ args.cmd = "deploy" =>
              \A i \in CliEntries :
                  Raised(i) /\ log[i].check \notin CaughtCommands => EndsRun(i)

\* a checked command outside the caught ones has failed and the run is over
C17_Witness ==
    /\ script = "cli" /\ args.cmd = "deploy" /\ exitCode = {1}
    /\ \E i \in CliEntries : Raised(i) /\ log[i].check = "docker build api"
    /\ \E i \in CliEntries : Raised(i) /\ log[i].check \in CaughtCommands

MonitoringCommands ==
    << "helm repo add", "helm repo update", "helm install monitoring" >>

\* the position of command c in the log, 0 when it was not executed
At(c) ==
    IF \E i \in CliEntries : log[i].check = c
    THEN CHOOSE i \in CliEntries : log[i].check = c
    ELSE 0

\* C18: monitoring commands are executed only without --skip-monitoring
\* and after a failed helm status monitoring; then repo add, repo update
\* and the install come in that order, all before the image build.
C18_MonitoringOnlyWhenNeeded ==
    script = "cli" /\ args.cmd = "deploy" =>
        /\ \A k \in 1..3 :
              At(MonitoringCommands[k]) # 0 =>
                  /\ ~args.skip_monitoring
                  /\ At("helm status monitoring") # 0
                  /\ Raised(At("helm status monitoring"))
                  /\ At(MonitoringCommands[k])
                        = At("helm status monitoring") + k
        /\ args.skip_monitoring => At("helm status monitoring") = 0
        /\ At("docker build api") # 0 =>
              \/ args.skip_monitoring
              \/ /\ At("helm status monitoring") # 0
                 /\ ~Raised(At("helm status monitoring"))
              \/ /\ At("helm install monitoring") # 0
                 /\ At("helm install monitoring") < At("docker build api")

\* the monitoring stack was installed and the image build has started
C18_Witness ==
    /\ script = "cli" /\ args.cmd = "deploy"
    /\ At("helm install monitoring") # 0
    /\ At("docker build api") > At("helm install monitoring")

\* ------------------------------------------------------------------
\* Properties of the forwarding processes and of the success banner
\* ------------------------------------------------------------------
ForwardedPorts == { Port("api_pf"), Port("web_pf") }

\* C16: every HTTP request to a locally forwarded port (30080, 31080) is
\* issued while a forwarding process for that port is alive, the 30 load
\* requests of verify-all.py included.
C16_RequestsWhileForwarded ==
    script \in {"vall", "vcluster"} =>
        \A q \in httpLog : q.port \in ForwardedPorts => q.forwarded

\* C19: the final success banner is printed only in runs where no check
\* reported a FAIL.
C19_BannerOnlyWithoutFail ==
    script \in Scripts /\ banner =>
        \A i \in 1..Len(log) : log[i].verdict # "FAIL"

\* C20: at most one live forwarding process of the run is bound to any
\* local port.
C20_OneForwardPerPort ==
    script \in {"vall", "vcluster"} =>
        \A f, g \in live : Port(f) = Port(g) => f = g

\* ------------------------------------------------------------------
\* Properties of find_project_root's search order
\* ------------------------------------------------------------------
\* C21: find_project_root tests the start first and then each parent in
\* turn: the directories below the one under test do not qualify, and the
\* directory returned is the deepest qualifying ancestor-or-self of the
\* start.
C21_NearestRoot ==
    script = "find_project_root" =>
        /\ current \in Ancestors(args.start)
        /\ \A q \in Qualifying : Len(q) <= Len(current)
        /\ pc = "returned" =>
              /\ root = {current}
              /\ current \in Qualifying
              /\ args.start \in Qualifying => root = {args.start}

\* several directories qualify and find_project_root has returned
C21_Witness ==
    /\ script = "find_project_root" /\ pc = "returned"
    /\ Cardinality(Qualifying) >= 2
    /\ args.start \notin Qualifying

\* ------------------------------------------------------------------
\* Properties of validate_environment and of destroy's error handling
\* ------------------------------------------------------------------
\* the statements of deploy up to the end of validate_environment
ValidationPcs ==
    { "d_root", "d_tool1", "d_tool2", "d_tool3", "d_tool4", "d_minikube",
      "d_values" }

\* validate_environment has failed: a tool is missing after the last
\* probe, minikube status failed, or the values file is missing
ValidationFailed ==
    \/ Len(log) >= Len(required_tools) /\ Missing(log) # {}
    \/ \E i \in CliEntries : log[i].check = "minikube status" /\ Raised(i)
    \/ ~args.values_file /\ pc \notin ValidationPcs

\* validate_environment has completed successfully
Validated ==
    /\ \A k \in 1..Len(required_tools) :
          Len(log) >= k /\ log[k].check = ToolCmds[k] /\ ~Raised(k)
    /\ Len(log) > Len(required_tools)
    /\ log[Len(required_tools) + 1].check = "minikube status"
    /\ ~Raised(Len(required_tools) + 1)
    /\ args.values_file

\* C22: in deploy no command of install_monitoring, build_images or
\* deploy_application (nor any later one) is executed unless
\* validate_environment completed before it; a missing tool, a failing
\* minikube status or a missing values file ends the run with exit code 1
\* and no such command.
C22_ValidatedBeforeSteps ==
    script = "cli" /\ args.cmd = "deploy" =>
        /\ \A i \in CliEntries :
              log[i].check \in StepCommands =>
                  Validated /\ i > Len(required_tools) + 1
        /\ pc \notin ValidationPcs \cup {"exited"} => Validated
        /\ ValidationFailed =>
              /\ pc = "exited" /\ exitCode = {1}
              /\ \A i \in CliEntries : log[i].check \notin StepCommands

\* the values file is missing and the run has ended after the probes
C22_Witness ==
    /\ script = "cli" /\ args.cmd = "deploy" /\ ~args.values_file
    /\ pc = "exited" /\ Len(log) = Len(required_tools) + 1
    /\ \A i \in CliEntries : ~Raised(i)

\* C25: in a confirmed destroy the namespace deletion is attempted
\* whatever helm uninstall returned, and a failing namespace deletion ends
\* the run with exit code 1 and without "Deployment destroyed".
C25_NamespaceDeletionAttempted ==
    script = "cli" /\ args.cmd = "destroy" /\ args.confirmed =>
        /\ Len(log) >= 1 =>
              /\ log[1].check = "helm uninstall"
              /\ ~Raised(1)
              /\ pc # "exited" \/ Len(log) = 2
        /\ Len(log) >= 2 => log[2].check = "kubectl delete namespace"
        /\ exitCode # {} =>
              /\ Len(log) = 2
              /\ IF log[2].res.rc # 0
                 THEN pc = "exited" /\ exitCode = {1} /\ ~banner
                 ELSE pc = "done" /\ exitCode = {0} /\ banner
        /\ banner => exitCode = {0}

\* helm uninstall failed, the namespace deletion was attempted and failed
C25_Witness ==
    /\ script = "cli" /\ args.cmd = "destroy" /\ args.confirmed
    /\ Len(log) = 2 /\ log[1].res.rc # 0 /\ log[2].res.rc # 0
    /\ exitCode = {1}

\* ==================================================================
\* deploy.py: the one-command installer
\* pc names the next statement; the log holds the commands in order with
\* what run did ("RETURNED", "EXIT"), the check flag and the result.
\* ==================================================================
Systems == { "linux", "darwin", "windows", "other" }

Binaries == { "kubectl", "minikube", "VBoxManage", "docker" }

Dockerfiles == { "api-server", "web-server" }

\* the machine the installer runs on: platform.system(), the binaries
\* shutil.which finds, the Dockerfiles that exist
Machines ==
    { [system |-> o, binaries |-> b, dockerfiles |-> d] :
        o \in Systems, b \in SUBSET Binaries, d \in SUBSET Dockerfiles }

InitInstaller ==
    /\ script = "installer"
    /\ args \in Machines
    /\ pc = "install_kubectl"
    /\ current = <<>>
    /\ root = {}
    /\ log = <<>>
    /\ live = {}
    /\ terms = [f \in Forwards |-> 0]
    /\ exitCode = {}
    /\ banner = FALSE
    /\ httpLog = {}
    /\ loadCount = 0
    /\ failed = FALSE

\* the variables the installer does not touch
installerIdle ==
    << script, live, terms, httpLog, loadCount, failed, args, current, root >>

\* exists(binary)
exists(binary) == binary \in args.binaries

\* run(cmd, check) that returns the code whatever check is
run_unchecked(c, r, check, next) ==
    /\ log' = Append(log, Entry(c, "RETURNED", CallFlags(check, FALSE), r))
    /\ pc' = next
    /\ UNCHANGED exitCode

\* run(cmd, check): sys.exit(1) on a failure with check, else the code
run(c, r, check, next) ==
    IF check /\ r.rc # 0
    THEN /\ log' = Append(log, Entry(c, "EXIT", CallFlags(check, FALSE), r))
         /\ pc' = "exited"
         /\ exitCode' = {1}
    ELSE /\ log' = Append(log, Entry(c, "RETURNED", CallFlags(check, FALSE), r))
         /\ pc' = next
         /\ UNCHANGED exitCode

\* consecutive run(...) statements with one check flag, then `next`
Chain(cmds, check, next) ==
    \E k \in 1..Len(cmds) :
        /\ pc = cmds[k]
        /\ \E r \in CmdResults :
              run(cmds[k], r, check, IF k < Len(cmds) THEN cmds[k + 1] ELSE next)

\* a statement that prints and goes on, or prints and calls sys.exit(1)
Step(ok, next) ==
    /\ IF ok THEN pc' = next /\ UNCHANGED exitCode
       ELSE pc' = "exited" /\ exitCode' = {1}
    /\ UNCHANGED log

\* install_kubectl()
install_kubectl ==
    /\ script = "installer"
    /\ \/ /\ pc = "install_kubectl"
          /\ IF exists("kubectl") THEN Step(TRUE, "install_minikube")
             ELSE IF args.system \in {"linux", "darwin"}
                  THEN Step(TRUE, "curl kubectl")
             ELSE IF args.system = "windows"
                  THEN Step(TRUE, "download kubectl.exe")
             ELSE Step(FALSE, "exited")
       \/ Chain(<< "curl kubectl", "chmod kubectl", "mv kubectl" >>, TRUE,
                "install_minikube")
       \/ Chain(<< "download kubectl.exe" >>, TRUE, "install_minikube")
    /\ UNCHANGED << banner, installerIdle >>

\* install_minikube()
install_minikube ==
    /\ script = "installer"
    /\ \/ /\ pc = "install_minikube"
          /\ IF exists("minikube") THEN Step(TRUE, "install_virtualbox")
             ELSE IF args.system = "linux" THEN Step(TRUE, "curl minikube")
             ELSE IF args.system = "darwin"
                  THEN Step(TRUE, "brew install minikube")
             ELSE IF args.system = "windows"
                  THEN Step(TRUE, "download minikube-installer.exe")
             ELSE Step(FALSE, "exited")
       \/ Chain(<< "curl minikube", "install minikube" >>, TRUE,
                "install_virtualbox")
       \/ Chain(<< "brew install minikube" >>, TRUE, "install_virtualbox")
       \/ Chain(<< "download minikube-installer.exe" >>, TRUE,
                "install_virtualbox")
    /\ UNCHANGED << banner, installerIdle >>

\* install_virtualbox()
install_virtualbox ==
    /\ script = "installer" /\ pc = "install_virtualbox"
    /\ Step(exists("VBoxManage"), "minikube start")
    /\ UNCHANGED << banner, installerIdle >>

\* start_minikube()
start_minikube ==
    /\ script = "installer"
    /\ Chain(<< "minikube start", "minikube status" >>, TRUE,
             "create namespace monitoring")
    /\ UNCHANGED << banner, installerIdle >>

\* install_prometheus_operator()
install_prometheus_operator ==
    /\ script = "installer"
    /\ Chain(<< "create namespace monitoring", "apply prometheus-operator" >>,
             TRUE, "apply prometheus-adapter")
    /\ UNCHANGED << banner, installerIdle >>

\* install_prometheus_adapter()
install_prometheus_adapter ==
    /\ script = "installer"
    /\ Chain(<< "apply prometheus-adapter" >>, TRUE, "create namespace keda")
    /\ UNCHANGED << banner, installerIdle >>

\* install_keda()
install_keda ==
    /\ script = "installer"
    /\ Chain(<< "create namespace keda", "apply keda" >>, TRUE,
             "create namespace unityexpress")
    /\ UNCHANGED << banner, installerIdle >>

\* create_namespace()
create_namespace ==
    /\ script = "installer"
    /\ Chain(<< "create namespace unityexpress" >>, TRUE, "build_local_images")
    /\ UNCHANGED << banner, installerIdle >>

\* build_local_images()
build_local_images ==
    /\ script = "installer"
    /\ \/ pc = "build_local_images" /\ Step(exists("docker"), "docker-env")
       \/ Chain(<< "docker-env" >>, FALSE, "dockerfiles")
       \/ /\ pc = "dockerfiles"
          /\ Step(Dockerfiles \subseteq args.dockerfiles, "docker build api")
       \/ Chain(<< "docker build api", "docker build web" >>, TRUE,
                "get nodes")
    /\ UNCHANGED << banner, installerIdle >>

ReadinessCommands ==
    << "get nodes", "dns lookup", "get apiservice", "get pods monitoring",
       "get pods keda", "docker images" >>

\* test_cluster_readiness()
test_cluster_readiness ==
    /\ script = "installer"
    /\ Chain(ReadinessCommands, FALSE, "helm upgrade unityexpress")
    /\ UNCHANGED << banner, installerIdle >>

\* deploy_helm()
deploy_helm ==
    /\ script = "installer"
    /\ Chain(<< "helm upgrade unityexpress" >>, TRUE, "open_ui")
    /\ UNCHANGED << banner, installerIdle >>

\* minikube service unityexpress-web --url, run with capture_output and
\* text: a URL, nothing, or bytes the decoding rejects
UrlResults ==
    { Res(0, {"http"}, {}), Res(1, {}, {"error"}),
      [Res(0, {"bytes"}, {}) EXCEPT !.exc = TRUE] }

\* open_ui(): webbrowser.open(url) or "Could not determine service URL";
\* a decoding error leaves the script with a traceback
open_ui ==
    /\ script = "installer" /\ pc = "open_ui"
    /\ \E r \in UrlResults :
          /\ log' = Append(log, Entry("minikube service url",
                                      IF r.exc THEN "EXIT" ELSE "RETURNED",
                                      {}, r))
          /\ IF r.exc THEN pc' = "exited" /\ exitCode' = {1}
             ELSE pc' = "complete" /\ UNCHANGED exitCode
    /\ UNCHANGED << banner, installerIdle >>

\* __main__: "Deployment Complete" and the end of the script
installer_complete ==
    /\ script = "installer" /\ pc = "complete"
    /\ banner' = TRUE
    /\ pc' = "done"
    /\ exitCode' = {0}
    /\ UNCHANGED << log, installerIdle >>

NextInstaller ==
    \/ install_kubectl
    \/ install_minikube
    \/ install_virtualbox
    \/ start_minikube
    \/ install_prometheus_operator
    \/ install_prometheus_adapter
    \/ install_keda
    \/ create_namespace
    \/ build_local_images
    \/ test_cluster_readiness
    \/ deploy_helm
    \/ open_ui
    \/ installer_complete

SpecInstaller == InitInstaller /\ [][NextInstaller]_vars

\* ------------------------------------------------------------------
\* Properties of the one-command installer
\* ------------------------------------------------------------------
\* the commands of the installer in the order of the script
InstallerCommands ==
    << "curl kubectl", "chmod kubectl", "mv kubectl", "download kubectl.exe",
       "curl minikube", "install minikube", "brew install minikube",
       "download minikube-installer.exe",
       "minikube start", "minikube status",
       "create namespace monitoring", "apply prometheus-operator",
       "apply prometheus-adapter", "create namespace keda", "apply keda",
       "create namespace unityexpress",
       "docker-env", "docker build api", "docker build web" >>
    \o ReadinessCommands
    \o << "helm upgrade unityexpress", "minikube service url" >>

Range(q) == { q[k] : k \in 1..Len(q) }

Index(c) == CHOOSE k \in 1..Len(InstallerCommands) : InstallerCommands[k] = c

Executed == { log[i].check : i \in 1..Len(log) }

\* C23: the installer runs its steps in the fixed order; a failure of a
\* command run with check, or a missing VirtualBox, docker or Dockerfile,
\* exits with code 1 before any later step; failures of the readiness
\* checks never abort; the banner is printed only after deploy_helm
\* succeeded.
C23_InstallerOrder ==
    script = "installer" =>
        /\ \A i, j \in 1..Len(log) :
              i < j => Index(log[i].check) < Index(log[j].check)
        /\ \A i \in 1..Len(log) :
              \A k \in Index("minikube start")..(Index(log[i].check) - 1) :
                  InstallerCommands[k] \in Executed
        /\ \A i \in 1..Len(log) :
              "check" \in log[i].detail /\ log[i].res.rc # 0 =>
                  i = Len(log) /\ pc = "exited" /\ exitCode = {1}
        /\ "VBoxManage" \notin args.binaries =>
              /\ \A c \in Executed : Index(c) < Index("minikube start")
              /\ exitCode # {} => exitCode = {1}
        /\ "docker" \notin args.binaries =>
              /\ \A c \in Executed : Index(c) < Index("docker-env")
              /\ exitCode # {} => exitCode = {1}
        /\ ~(Dockerfiles \subseteq args.dockerfiles) =>
              /\ \A c \in Executed : Index(c) < Index("docker build api")
              /\ exitCode # {} => exitCode = {1}
        /\ \A i \in 1..Len(log) :
              log[i].check \in Range(ReadinessCommands) =>
                  /\ log[i].verdict = "RETURNED"
                  /\ i = Len(log) => pc # "exited"
                  /\ exitCode # {} =>
                        /\ Range(ReadinessCommands) \subseteq Executed
                        /\ "helm upgrade unityexpress" \in Executed
        /\ banner =>
              /\ exitCode = {0}
              /\ \E i \in 1..Len(log) :
                    /\ log[i].check = "helm upgrade unityexpress"
                    /\ log[i].res.rc = 0

\* readiness checks failed and the installer went on to its banner
C23_Witness ==
    /\ script = "installer" /\ banner
    /\ \E i \in 1..Len(log) :
          log[i].check \in Range(ReadinessCommands) /\ log[i].res.rc # 0

\* ==================================================================
\* scripts/verify-structure.py: check_structure
\* The log holds the printed lines: the path, "OK", "MISSING FOLDER" or
\* "MISSING FILE"; missing_items are the lines that are not "OK".
\* ==================================================================
MaxMissingFiles == 2

\* the keys of EXPECTED_STRUCTURE in the order of the dictionary
ExpectedFolders ==
    << "api-server", "web-server", "charts/unityexpress", "monitoring",
       "scripts" >>

EXPECTED_STRUCTURE ==
    [ d \in { ExpectedFolders[k] : k \in 1..Len(ExpectedFolders) } |->
        CASE d = "api-server" ->
               << "Dockerfile", "package.json", "src/index.js",
                  "src/config.js", "src/mongo.js", "src/kafka.js",
                  "src/metrics.js", "src/routes.js" >>
          [] d = "web-server" ->
               << "Dockerfile", "nginx.conf", "public/index.html",
                  "public/app.js", "public/style.css" >>
          [] d = "charts/unityexpress" ->
               << "Chart.yaml", "values.yaml", "templates/api-deployment.yaml",
                  "templates/web-deployment.yaml",
                  "templates/mongo-statefulset.yaml",
                  "templates/kafka-deployment.yaml", "templates/api-hpa.yaml",
                  "templates/api-servicemonitor.yaml",
                  "templates/prometheus-adapter-config.yaml",
                  "templates/_helpers.tpl" >>
          [] d = "monitoring" -> << "prometheus-adapter-values.yaml" >>
          [] d = "scripts" ->
               << "prerequisites.sh", "install-monitoring.sh",
                  "build-images.sh", "deploy.sh", "verify.sh" >> ]

\* os.path.join(PROJECT_ROOT, folder[, rel_file]); file "" is the folder
StructPath(d, f) == [folder |-> d, file |-> f]

ExpectedFiles ==
    UNION { { StructPath(d, EXPECTED_STRUCTURE[d][k]) :
                k \in 1..Len(EXPECTED_STRUCTURE[d]) } :
            d \in DOMAIN EXPECTED_STRUCTURE }

\* sets of at most n expected files
RECURSIVE FileSets(_)
FileSets(n) ==
    IF n = 0 THEN { {} }
    ELSE LET fewer == FileSets(n - 1)
         IN  fewer \cup { x \cup {f} : x \in fewer, f \in ExpectedFiles }

\* what lies under PROJECT_ROOT: the expected folders that are no
\* directory and the expected files that are no file
ProjectTrees ==
    { [nodirs |-> nd, nofiles |-> nf] :
        nd \in SUBSET DOMAIN EXPECTED_STRUCTURE,
        nf \in FileSets(MaxMissingFiles) }

\* os.path.isdir(folder_path)
isdir(d) == d \notin args.nodirs

\* os.path.isfile(file_path)
isfile(p) == p.folder \notin args.nodirs /\ p \notin args.nofiles

InitStructure ==
    /\ script = "structure"
    /\ args \in ProjectTrees
    /\ pc = "cs_api_server"
    /\ current = <<>>
    /\ root = {}
    /\ log = <<>>
    /\ live = {}
    /\ terms = [f \in Forwards |-> 0]
    /\ exitCode = {}
    /\ banner = FALSE
    /\ httpLog = {}
    /\ loadCount = 0
    /\ failed = FALSE

\* the variables check_structure does not touch
structureIdle ==
    << script, live, terms, httpLog, loadCount, failed, args, current, root >>

FolderPcs ==
    << "cs_api_server", "cs_web_server", "cs_charts", "cs_monitoring",
       "cs_scripts" >>

\* a printed line
Line(p, v) == [check |-> p, verdict |-> v]

\* the lines of the inner loop over expected_files
FileLines(d) ==
    [ j \in 1..Len(EXPECTED_STRUCTURE[d]) |->
        LET p == StructPath(d, EXPECTED_STRUCTURE[d][j])
        IN  Line(p, IF isfile(p) THEN "OK" ELSE "MISSING FILE") ]

\* missing_items
missing_items(l) == SelectSeq(l, LAMBDA e : e.verdict # "OK")

\* the outer loop leaving at the first missing folder
check_structure_folder_break ==
    /\ script = "structure"
    /\ \E k \in 1..Len(ExpectedFolders) :
          LET d == ExpectedFolders[k]
          IN  /\ pc = FolderPcs[k]
              /\ IF ~isdir(d)
                 THEN /\ log' = Append(log, Line(StructPath(d, ""),
                                                 "MISSING FOLDER"))
                      /\ pc' = "cs_report"
                 ELSE /\ log' = Append(log, Line(StructPath(d, ""), "OK"))
                                   \o FileLines(d)
                      /\ pc' = IF k < Len(ExpectedFolders)
                               THEN FolderPcs[k + 1] ELSE "cs_report"
    /\ UNCHANGED << exitCode, banner, structureIdle >>

\* check_structure: one iteration of the loop over EXPECTED_STRUCTURE
check_structure_folder ==
    /\ script = "structure"
    /\ \E k \in 1..Len(ExpectedFolders) :
          LET d == ExpectedFolders[k]
          IN  /\ pc = FolderPcs[k]
              /\ log' = IF ~isdir(d)
                        THEN Append(log, Line(StructPath(d, ""),
                                              "MISSING FOLDER"))
                        ELSE Append(log, Line(StructPath(d, ""), "OK"))
                                \o FileLines(d)
              /\ pc' = IF k < Len(ExpectedFolders)
                       THEN FolderPcs[k + 1] ELSE "cs_report"
    /\ UNCHANGED << exitCode, banner, structureIdle >>

\* check_structure: FAILED and sys.exit(1), or PASSED
check_structure_report ==
    /\ script = "structure" /\ pc = "cs_report"
    /\ IF missing_items(log) # << >>
       THEN pc' = "exited" /\ exitCode' = {1} /\ UNCHANGED banner
       ELSE pc' = "done" /\ exitCode' = {0} /\ banner' = TRUE
    /\ UNCHANGED << log, structureIdle >>

NextStructure ==
    \/ check_structure_folder
    \/ check_structure_report

SpecStructure == InitStructure /\ [][NextStructure]_vars

\* the lines printed about path p
LinesAbout(p) == { i \in 1..Len(log) : log[i].check = p }

\* C24: check_structure exits with code 1 if and only if an expected
\* folder or file is missing; it inspects every expected folder, records a
\* missing folder once without looking at its files, and prints PASSED
\* only when missing_items is empty.
C24_StructureVerdict ==
    script = "structure" /\ exitCode # {} =>
        /\ exitCode = {1} <=>
              \/ \E d \in DOMAIN EXPECTED_STRUCTURE : ~isdir(d)
              \/ \E p \in ExpectedFiles : ~isfile(p)
        /\ exitCode = {1} <=> pc = "exited"
        /\ \A d \in DOMAIN EXPECTED_STRUCTURE :
              /\ Cardinality(LinesAbout(StructPath(d, ""))) = 1
              /\ \A i \in LinesAbout(StructPath(d, "")) :
                    log[i].verdict = "MISSING FOLDER" <=> ~isdir(d)
        /\ \A p \in ExpectedFiles :
              IF isdir(p.folder)
              THEN /\ Cardinality(LinesAbout(p)) = 1
                   /\ \A i \in LinesAbout(p) :
                         log[i].verdict = "MISSING FILE" <=> ~isfile(p)
              ELSE LinesAbout(p) = {}
        /\ banner <=> missing_items(log) = << >>
        /\ banner => exitCode = {0}

\* a folder and a file of another folder are missing and the check failed
C24_Witness ==
    /\ script = "structure" /\ exitCode = {1}
    /\ \E i, j \in 1..Len(log) :
          /\ log[i].verdict = "MISSING FOLDER"
          /\ log[j].verdict = "MISSING FILE"
          /\ i < j

====
